---- MODULE Spec2Model ----
(***************************************************************************)
(* Model of ezdxf/entityspace.py: EntitySpace (an ordered list of entity   *)
(* handles backed by the shared entity database) and LayoutSpaces (the     *)
(* registry key -> EntitySpace with the version dependent key strategy and *)
(* the two-pass repair_owner_tags).                                        *)
(*                                                                         *)
(* The atomic operations are one action each.  repair_owner_tags is        *)
(* modelled loop iteration by loop iteration (pc, idx), since its passes   *)
(* iterate over a list that the second pass may itself append to.          *)
(***************************************************************************)
EXTENDS Integers, Sequences, FiniteSets, TLC

\* ---------------------------------------------------------------- bounds
NumHandles == 2        \* handles 1..NumHandles
MaxSpaceLen == 4       \* cap on the length of one EntitySpace list

\* ------------------------------------------------------- program constants
LegacyVersion == 1009  \* 'AC1009'
TempKey == 0           \* key of the temporary model space

Handles == 1..NumHandles

\* Layout keys.  The code compares a key only for equality with 0, with
\* model_space_key and with paper_space_key: the temporary key and two more
\* keys give every case (equal or distinct keys, a key that is neither).
Keys == {TempKey, 1, 2}

Versions == {LegacyVersion, 1015}   \* 'AC1009' (R12), 'AC1015' (R2000)
SpaceIds == 1..(Cardinality(Keys) + 1)

NoTag == -1        \* the tag is absent from the tag group
NoSubclass == -2   \* the record has no 'AcDbEntity' subclass
NoKey == -1        \* no layout key
NoSpace == 0       \* no EntitySpace reference
NoLink == 0        \* tags.link is None

\* the handles of the records that are reached through links only (the
\* vertices of a polyline, the attributes of an insert); they are in the
\* database and in no space
LinkHandles == {NumHandles + 1, NumHandles + 2}
AllHandles == Handles \cup LinkHandles

\* A record (ClassifiedTags) as far as this file reads it:
\*   owner  value of tag 330 in tags.noclass, or NoTag
\*   paper  value of tag 67 in tags.noclass, or NoTag
\*   entity the 'AcDbEntity' subclass: NoSubclass, or the value of its tag 67
\*          (NoTag when the subclass has no tag 67)
Tags(owner, paper, entity) == [owner |-> owner, paper |-> paper, entity |-> entity]

\* The records handed to store_tags: the two shapes DXF files have.  An R12
\* record has no subclasses and no owner tag, and its paper space flag is in
\* noclass; a later record has the 'AcDbEntity' subclass, which holds the flag,
\* and an optional owner tag in noclass (an owner tag of 0 reads like an
\* absent one).  Both shapes reach both dialects.
TagsSet ==
    {Tags(NoTag, p, NoSubclass) : p \in {NoTag, 1}}
    \cup {Tags(o, NoTag, e) : o \in (Keys \ {TempKey}) \cup {NoTag}, e \in {NoTag, 1}}

NoSubclassError == "DXFStructureError: Entity has no subclass 'AcDbEntity'."
InvalidOwnerError == "DXFStructureError: Invalid owner handle"

VARIABLES
    dxfversion,      \* LayoutSpaces._dxfversion
    entitydb,        \* the entity database: handle -> record
    layout_spaces,   \* LayoutSpaces._layout_spaces: key -> EntitySpace
    pc,              \* "idle", or the pass repair_owner_tags is in
    idx,             \* position of the list iterator of the running pass
    temp0,           \* the temporary space as repair_owner_tags found it
    spaces0,         \* the registry as repair_owner_tags found it
    link,            \* handle -> tags.link of its record, NoLink for None
    out,             \* the handles of the records the last call wrote
    op               \* the last call: name, outcome, arguments, return value

vars ==
    <<dxfversion, entitydb, link, layout_spaces, pc, idx, temp0, spaces0, op, out>>

\* ---------------------------------------------------------------- helpers
Range(s) == {s[n] : n \in 1..Len(s)}

Count(s, h) == Cardinality({n \in 1..Len(s) : s[n] = h})

\* list.remove(h): drops the first occurrence of h
ListRemove(s, h) ==
    LET p == CHOOSE n \in 1..Len(s) : s[n] = h /\ \A m \in 1..(n - 1) : s[m] # h
    IN  [n \in 1..(Len(s) - 1) |-> IF n < p THEN s[n] ELSE s[n + 1]]

\* get_first_value(code, default): value of a tag, default when absent
get_first_value(v, default) == IF v = NoTag THEN default ELSE v

\* dict without one key
DelKey(sp, key) == [k \in DOMAIN sp \ {key} |-> sp[k]]

SpaceIdsOf(sp) == {sp[k].id : k \in DOMAIN sp}

\* EntitySpace(entitydb): the identity of a newly constructed object is one
\* that no live reference has (no registered space and not the reference the
\* caller holds).  Identities are only ever compared for equality, so the
\* choice among the free ones is immaterial: the first free one, starting at
\* key + 1, is taken.
NewId(sp, key, held) ==
    LET live == SpaceIdsOf(sp) \cup {held}
        cand == [n \in 1..Cardinality(SpaceIds) |->
                    ((key + n - 1) % Cardinality(SpaceIds)) + 1]
        first == CHOOSE n \in 1..Cardinality(SpaceIds) :
                    /\ cand[n] \notin live
                    /\ \A m \in 1..(n - 1) : cand[m] \in live
    IN  cand[first]

\* ------------------------------------------------------- LayoutSpaces code
legacy_strategy_lt(version) == version < LegacyVersion

\* __init__: dxfversion <= 'AC1009' selects the paper space value as key
legacy_strategy(version) == version <= LegacyVersion

\* __init__: the key strategy _get_key
get_key(version, tags) ==
    IF legacy_strategy(version)
    THEN get_first_value(tags.paper, 0)
    ELSE get_first_value(tags.owner, 0)

get_entity_space_always_new(sp, key, held) ==
    [k \in DOMAIN sp \cup {key} |->
        IF k = key THEN [id |-> NewId(sp, key, held), items |-> <<>>] ELSE sp[k]]

\* get_entity_space: the registry after the call
get_entity_space(sp, key, held) ==
    IF key \in DOMAIN sp
    THEN sp
    ELSE sp @@ (key :> [id |-> NewId(sp, key, held), items |-> <<>>])

add_handle_prepend(sp, key, handle) ==
    [sp EXCEPT ![key].items = <<handle>> \o @]

\* EntitySpace.store_tags / add_handle on the space registered under key
add_handle(sp, key, handle) ==
    [sp EXCEPT ![key].items = Append(@, handle)]

\* EntitySpace.delete_all_entities on the space registered under key
clear_space(sp, key) == [sp EXCEPT ![key].items = <<>>]

delete_entity_space_keep_key(sp, key) == clear_space(sp, key)

\* delete_entity_space: the registry after the call, key being registered
delete_entity_space(sp, key) == DelKey(clear_space(sp, key), key)

Result(name, err, key, key2, ret, after) ==
    [name |-> name, err |-> err, key |-> key, key2 |-> key2, ret |-> ret,
     after |-> after]

model_space_key == op.key
paper_space_key == op.key2

Init ==
    /\ dxfversion \in Versions
    /\ entitydb = <<>>
    /\ layout_spaces = <<>>
    /\ pc = "idle"
    /\ idx = 0
    /\ temp0 = <<>>
    /\ spaces0 = <<>>
    /\ link = [h \in AllHandles |-> NoLink]
    /\ out = <<>>
    /\ op = Result("init", "ok", NoKey, NoKey, NoSpace, "none")

\* LayoutSpaces.store_tags(tags) of a record with a handle not stored before.
\* Handles are opaque and only compared for equality, so the records get the
\* handles 1, 2, ... in the order in which they are stored.
StoreTags(h, tags) ==
    /\ pc = "idle"
    /\ h \notin DOMAIN entitydb
    /\ h = Cardinality(DOMAIN entitydb) + 1
    /\ LET key == get_key(dxfversion, tags)
           sp == get_entity_space(layout_spaces, key, NoSpace)
       IN  /\ layout_spaces' = add_handle(sp, key, h)
           /\ op' = Result("store_tags", "ok", key, h, NoSpace, "none")
    /\ entitydb' = entitydb @@ (h :> tags)
    /\ temp0' = <<>>
    /\ spaces0' = <<>>
    /\ out' = <<>>
    /\ UNCHANGED <<link, dxfversion, pc, idx>>

\* LayoutSpaces.get_entity_space(key); op.after tells a call that follows a
\* get_entity_space or a successful delete_entity_space of the same key
GetEntitySpace(key) ==
    /\ pc = "idle"
    /\ layout_spaces' = get_entity_space(layout_spaces, key, op.ret)
    /\ op' = Result("get_entity_space", "ok", key, NoKey, layout_spaces'[key].id,
                    IF op.key = key /\ op.err = "ok"
                          /\ op.name \in {"get_entity_space", "delete_entity_space"}
                    THEN op.name ELSE "none")
    /\ temp0' = <<>>
    /\ spaces0' = <<>>
    /\ out' = <<>>
    /\ UNCHANGED <<link, dxfversion, entitydb, pc, idx>>

entity_space_delete_entity_silent(items, h) ==
    IF h \in Range(items)
    THEN [err |-> "ok", items |-> ListRemove(items, h)]
    ELSE [err |-> "ok", items |-> items]

\* EntitySpace.delete_entity: self.remove(handle), which raises ValueError
\* and leaves the list as it is when the handle is not in it
entity_space_delete_entity(items, h) ==
    IF h \in Range(items)
    THEN [err |-> "ok", items |-> ListRemove(items, h)]
    ELSE [err |-> "ValueError", items |-> items]

DeleteEntityCreates(h) ==
    /\ pc = "idle"
    /\ h \in DOMAIN entitydb
    /\ LET key == get_key(dxfversion, entitydb[h])
           sp == get_entity_space(layout_spaces, key, NoSpace)
           res == entity_space_delete_entity(sp[key].items, h)
       IN  /\ layout_spaces' = [sp EXCEPT ![key].items = res.items]
           /\ op' = Result("delete_entity", res.err, key, h, NoSpace, "none")
    /\ temp0' = <<>>
    /\ spaces0' = <<>>
    /\ out' = <<>>
    /\ UNCHANGED <<link, dxfversion, entitydb, pc, idx>>

\* LayoutSpaces.delete_entity(entity) for an entity of the database
DeleteEntity(h) ==
    /\ pc = "idle"
    /\ h \in DOMAIN entitydb
    /\ LET key == get_key(dxfversion, entitydb[h])
       IN  IF key \notin DOMAIN layout_spaces
           THEN /\ op' = Result("delete_entity", "ignored", key, h, NoSpace, "none")
                /\ UNCHANGED layout_spaces
           ELSE LET res == entity_space_delete_entity(layout_spaces[key].items, h)
                IN  /\ layout_spaces' = [layout_spaces EXCEPT ![key].items = res.items]
                    /\ op' = Result("delete_entity", res.err, key, h, NoSpace, "none")
    /\ temp0' = <<>>
    /\ spaces0' = <<>>
    /\ out' = <<>>
    /\ UNCHANGED <<link, dxfversion, entitydb, pc, idx>>

\* LayoutSpaces.delete_entity_space(key)
DeleteEntitySpace(key) ==
    /\ pc = "idle"
    /\ IF key \in DOMAIN layout_spaces
       THEN /\ layout_spaces' = delete_entity_space(layout_spaces, key)
            /\ op' = Result("delete_entity_space", "ok", key, NoKey, NoSpace, "none")
       ELSE /\ op' = Result("delete_entity_space", "KeyError", key, NoKey, NoSpace,
                            "none")
            /\ UNCHANGED layout_spaces
    /\ temp0' = <<>>
    /\ spaces0' = <<>>
    /\ out' = <<>>
    /\ UNCHANGED <<link, dxfversion, entitydb, pc, idx>>

DeleteAllEntitiesDropSpaces ==
    /\ pc = "idle"
    /\ layout_spaces' = <<>>
    /\ op' = Result("delete_all_entities", "ok", NoKey, NoKey, NoSpace, "none")
    /\ temp0' = <<>>
    /\ spaces0' = <<>>
    /\ out' = <<>>
    /\ UNCHANGED <<link, dxfversion, entitydb, pc, idx>>

DeleteAllEntitiesPurge ==
    /\ pc = "idle"
    /\ layout_spaces' = [k \in DOMAIN layout_spaces |-> [layout_spaces[k] EXCEPT !.items = <<>>]]
    /\ entitydb' = <<>>
    /\ op' = Result("delete_all_entities", "ok", NoKey, NoKey, NoSpace, "none")
    /\ temp0' = <<>>
    /\ spaces0' = <<>>
    /\ out' = <<>>
    /\ UNCHANGED <<link, dxfversion, pc, idx>>

\* LayoutSpaces.delete_all_entities()
DeleteAllEntities ==
    /\ pc = "idle"
    /\ layout_spaces' = [k \in DOMAIN layout_spaces |-> clear_space(layout_spaces, k)[k]]
    /\ op' = Result("delete_all_entities", "ok", NoKey, NoKey, NoSpace, "none")
    /\ temp0' = <<>>
    /\ spaces0' = <<>>
    /\ out' = <<>>
    /\ UNCHANGED <<link, dxfversion, entitydb, pc, idx>>

repair_not_applicable_lt(version) == version < LegacyVersion

\* repair_owner_tags: if self._dxfversion <= 'AC1009': return
repair_not_applicable(version) == version <= LegacyVersion

RepairCallEager(mk, pk) ==
    /\ pc = "idle"
    /\ IF repair_not_applicable(dxfversion)
       THEN /\ op' = Result("repair_owner_tags", "legacy", NoKey, NoKey, NoSpace, "none")
            /\ temp0' = <<>>
            /\ spaces0' = <<>>
            /\ out' = <<>>
            /\ UNCHANGED <<layout_spaces, pc, idx>>
       ELSE IF TempKey \notin DOMAIN layout_spaces
       THEN /\ layout_spaces' =
                  get_entity_space(get_entity_space(layout_spaces, mk, NoSpace),
                                   pk, NoSpace)
            /\ op' = Result("repair_owner_tags", "no_temp", NoKey, NoKey, NoSpace,
                            "none")
            /\ temp0' = <<>>
            /\ spaces0' = <<>>
            /\ out' = <<>>
            /\ UNCHANGED <<pc, idx>>
       ELSE /\ layout_spaces' =
                  get_entity_space(get_entity_space(layout_spaces, mk, NoSpace),
                                   pk, NoSpace)
            /\ temp0' = layout_spaces[TempKey].items
            /\ spaces0' = layout_spaces
            /\ out' = <<>>
            /\ pc' = "update"
            /\ idx' = 1
            /\ op' = Result("repair_owner_tags", "running", mk, pk, NoSpace, "none")
    /\ UNCHANGED <<link, dxfversion, entitydb>>

\* repair_owner_tags(model_space_key, paper_space_key): the two early returns,
\* else the lookups of the three spaces; the passes follow step by step
RepairCall(mk, pk) ==
    /\ pc = "idle"
    /\ IF repair_not_applicable(dxfversion)
       THEN /\ op' = Result("repair_owner_tags", "legacy", NoKey, NoKey, NoSpace, "none")
            /\ temp0' = <<>>
            /\ spaces0' = <<>>
            /\ out' = <<>>
            /\ UNCHANGED <<layout_spaces, pc, idx>>
       ELSE IF TempKey \notin DOMAIN layout_spaces
       THEN /\ op' = Result("repair_owner_tags", "no_temp", NoKey, NoKey, NoSpace,
                            IF op.name = "repair_owner_tags" /\ op.err = "ok"
                            THEN op.name ELSE "none")
            /\ temp0' = <<>>
            /\ spaces0' = <<>>
            /\ out' = <<>>
            /\ UNCHANGED <<layout_spaces, pc, idx>>
       ELSE /\ layout_spaces' =
                  get_entity_space(get_entity_space(layout_spaces, mk, NoSpace),
                                   pk, NoSpace)
            /\ temp0' = layout_spaces[TempKey].items
            /\ spaces0' = layout_spaces
            /\ out' = <<>>
            /\ pc' = "update"
            /\ idx' = 1
            /\ op' = Result("repair_owner_tags", "running", mk, pk, NoSpace, "none")
    /\ UNCHANGED <<link, dxfversion, entitydb>>

owner_key_swapped(tags, mk, pk) ==
    IF get_first_value(tags.entity, 0) = 0 THEN pk ELSE mk

\* update_entity_tags: the key written to the owner tag of one record
owner_key(tags, mk, pk) ==
    IF get_first_value(tags.entity, 0) = 0 THEN mk ELSE pk

UpdateStepFused ==
    /\ pc = "update"
    /\ LET temp == layout_spaces[TempKey].items
       IN  IF idx > Len(temp)
           THEN /\ pc' = "distribute"
                /\ idx' = Len(temp) + 1
                /\ UNCHANGED <<entitydb, layout_spaces, op, temp0, spaces0, out>>
           ELSE LET tags == entitydb[temp[idx]]
                    key == owner_key(tags, model_space_key, paper_space_key)
                IN  IF tags.entity = NoSubclass
                    THEN /\ pc' = "idle"
                         /\ idx' = 0
                         /\ op' = [op EXCEPT !.err = NoSubclassError]
                         /\ UNCHANGED <<entitydb, layout_spaces, temp0, spaces0, out>>
                    ELSE /\ Len(layout_spaces[key].items) < MaxSpaceLen
                         /\ entitydb' = [entitydb EXCEPT ![temp[idx]].owner = key]
                         /\ layout_spaces' = add_handle(layout_spaces, key, temp[idx])
                         /\ idx' = idx + 1
                         /\ UNCHANGED <<pc, op, temp0, spaces0, out>>
    /\ UNCHANGED <<link, dxfversion>>

UpdateStepSwallow ==
    /\ pc = "update"
    /\ LET temp == layout_spaces[TempKey].items
       IN  IF idx > Len(temp)
           THEN /\ pc' = "distribute"
                /\ idx' = 1
                /\ UNCHANGED entitydb
           ELSE LET tags == entitydb[temp[idx]]
                    key == owner_key(tags, model_space_key, paper_space_key)
                IN  /\ entitydb' = IF tags.entity = NoSubclass THEN entitydb
                                   ELSE [entitydb EXCEPT ![temp[idx]].owner = key]
                    /\ idx' = idx + 1
                    /\ UNCHANGED pc
    /\ UNCHANGED <<link, dxfversion, layout_spaces, op, temp0, spaces0, out>>

\* one iteration of the loop of update_entity_tags, or the end of the loop
UpdateStep ==
    /\ pc = "update"
    /\ LET temp == layout_spaces[TempKey].items
       IN  IF idx > Len(temp)
           THEN /\ pc' = "distribute"
                /\ idx' = 1
                /\ UNCHANGED <<entitydb, op, temp0, spaces0, out>>
           ELSE LET tags == entitydb[temp[idx]]
                IN  IF tags.entity = NoSubclass
                    THEN /\ pc' = "idle"
                         /\ idx' = 0
                         /\ op' = [op EXCEPT !.err = NoSubclassError]
                         /\ UNCHANGED <<entitydb, temp0, spaces0, out>>
                    ELSE /\ entitydb' = [entitydb EXCEPT ![temp[idx]].owner =
                               owner_key(tags, model_space_key, paper_space_key)]
                         /\ idx' = idx + 1
                         /\ UNCHANGED <<pc, op, temp0, spaces0, out>>
    /\ UNCHANGED <<link, dxfversion, layout_spaces>>

target_key_no_paper(owner, mk, pk) ==
    IF owner = mk THEN mk ELSE NoKey

target_key_default_model(owner, mk, pk) ==
    IF owner = pk /\ owner # mk THEN pk ELSE mk

target_key_swapped(owner, mk, pk) ==
    IF owner = mk THEN pk
    ELSE IF owner = pk THEN mk
    ELSE NoKey

\* distribute: the key of the space one handle of the temporary space is added
\* to, NoKey when its owner tag is neither key
target_key(owner, mk, pk) ==
    IF owner = mk THEN mk
    ELSE IF owner = pk THEN pk
    ELSE NoKey

remove_temp_forgotten(sp) == sp

remove_temp_clear_all(sp) == <<>>

\* del self._layout_spaces[0]
remove_temp(sp) == DelKey(sp, TempKey)

\* one iteration of the loop of distribute, or the end of the loop followed by
\* the removal of the temporary space and the return.  The list iterator reads
\* the length of the list at every step.  An iteration that would make a list
\* longer than MaxSpaceLen is not taken (the model stops there).
DistributeStep ==
    /\ pc = "distribute"
    /\ LET temp == layout_spaces[TempKey].items
       IN  IF idx > Len(temp)
           THEN /\ layout_spaces' = remove_temp(layout_spaces)
                /\ pc' = "idle"
                /\ idx' = 0
                /\ op' = [op EXCEPT !.err = "ok"]
                /\ UNCHANGED <<temp0, spaces0, out>>
           ELSE LET key == target_key(entitydb[temp[idx]].owner,
                                      model_space_key, paper_space_key)
                IN  IF key = NoKey
                    THEN /\ pc' = "idle"
                         /\ idx' = 0
                         /\ op' = [op EXCEPT !.err = InvalidOwnerError]
                         /\ UNCHANGED <<layout_spaces, temp0, spaces0, out>>
                    ELSE /\ Len(layout_spaces[key].items) < MaxSpaceLen
                         /\ layout_spaces' = add_handle(layout_spaces, key, temp[idx])
                         /\ idx' = idx + 1
                         /\ UNCHANGED <<pc, op, temp0, spaces0, out>>
    /\ UNCHANGED <<link, dxfversion, entitydb>>

\* the number of times handle h occurs in the registry
Occurrences(sp, h) ==
    LET RECURSIVE sum(_)
        sum(ks) == IF ks = {} THEN 0
                   ELSE LET k == CHOOSE x \in ks : TRUE
                        IN  Count(sp[k].items, h) + sum(ks \ {k})
    IN  sum(DOMAIN sp)

\* LayoutSpaces.__len__: the sum of the lengths of all spaces
registry_len(sp) ==
    LET RECURSIVE sum(_)
        sum(ks) == IF ks = {} THEN 0
                   ELSE LET k == CHOOSE x \in ks : TRUE
                        IN  Len(sp[k].items) + sum(ks \ {k})
    IN  sum(DOMAIN sp)

\* Another writer of the entity database forces the owner tag of a record of
\* the temporary space between the tag-fix pass and the redistribution pass.
\* It acts on a registry in which no handle occurs twice.
ForceOwner(h, key) ==
    /\ pc = "distribute"
    /\ idx = 1
    /\ \A g \in Handles : Occurrences(layout_spaces, g) <= 1
    /\ h \in Range(layout_spaces[TempKey].items)
    /\ entitydb[h].owner # key
    /\ entitydb' = [entitydb EXCEPT ![h].owner = key]
    /\ UNCHANGED <<link, dxfversion, layout_spaces, pc, idx, temp0, spaces0, out, op>>

Next ==
    \/ \E h \in Handles, tags \in TagsSet : StoreTags(h, tags)
    \/ \E key \in Keys : GetEntitySpace(key)
    \/ \E h \in Handles : DeleteEntity(h)
    \/ \E key \in Keys : DeleteEntitySpace(key)
    \/ DeleteAllEntities
    \/ \E mk \in Keys, pk \in Keys : RepairCall(mk, pk)
    \/ UpdateStep
    \/ DistributeStep

Spec == Init /\ [][Next]_vars

\* Loading and repairing a document while a second writer of the entity
\* database is at work.
NextForced ==
    \/ \E h \in Handles, tags \in TagsSet : StoreTags(h, tags)
    \/ \E key \in Keys : GetEntitySpace(key)
    \/ \E mk \in Keys, pk \in Keys : RepairCall(mk, pk)
    \/ UpdateStep
    \/ DistributeStep
    \/ \E h \in Handles, key \in Keys : ForceOwner(h, key)

SpecForced == Init /\ [][NextForced]_vars

entity_space_write_reversed(items) ==
    LET RECURSIVE chain(_)
        chain(h) == IF h = NoLink THEN <<>> ELSE <<h>> \o chain(link[h])
        RECURSIVE all(_)
        all(rest) == IF rest = <<>> THEN <<>>
                     ELSE all(Tail(rest)) \o chain(Head(rest))
    IN  all(items)

entity_space_write_one_link(items) ==
    LET chain(h) == IF link[h] = NoLink THEN <<h>> ELSE <<h, link[h]>>
        RECURSIVE all(_)
        all(rest) == IF rest = <<>> THEN <<>>
                     ELSE chain(Head(rest)) \o all(Tail(rest))
    IN  all(items)

\* EntitySpace.write: for each handle of the list the record and then the
\* records its link chain leads to, until a link is None
entity_space_write(items) ==
    LET RECURSIVE chain(_)
        chain(h) == IF h = NoLink THEN <<>> ELSE <<h>> \o chain(link[h])
        RECURSIVE all(_)
        all(rest) == IF rest = <<>> THEN <<>>
                     ELSE chain(Head(rest)) \o all(Tail(rest))
    IN  all(items)

\* LayoutSpaces.write(tagwriter, keys=[key]): layout_spaces[key] raises
\* KeyError when the key is not registered
Write(key) ==
    /\ pc = "idle"
    /\ IF key \in DOMAIN layout_spaces
       THEN /\ out' = entity_space_write(layout_spaces[key].items)
            /\ op' = Result("write", "ok", key, NoKey, NoSpace, "none")
       ELSE /\ out' = <<>>
            /\ op' = Result("write", "KeyError", key, NoKey, NoSpace, "none")
    /\ temp0' = <<>>
    /\ spaces0' = <<>>
    /\ UNCHANGED <<link, dxfversion, entitydb, layout_spaces, pc, idx>>

\* EntitySpace.add_handle(handle) on the space registered under key, with the
\* handle of a record of the database that this space does not hold yet (an
\* entity is moved or copied to another layout)
AddHandle(key, h) ==
    /\ pc = "idle"
    /\ key \in DOMAIN layout_spaces
    /\ h \in DOMAIN entitydb
    /\ h \notin Range(layout_spaces[key].items)
    /\ layout_spaces' = add_handle(layout_spaces, key, h)
    /\ op' = Result("add_handle", "ok", key, h, NoSpace, "none")
    /\ temp0' = <<>>
    /\ spaces0' = <<>>
    /\ out' = <<>>
    /\ UNCHANGED <<link, dxfversion, entitydb, pc, idx>>

\* The link fields of a document: a record of a space starts a chain through
\* linked records, a linked record leads to a later linked record or ends
\* the chain; the chains are finite.
Links ==
    {l \in [AllHandles -> LinkHandles \cup {NoLink}] :
        \A c \in LinkHandles : l[c] = NoLink \/ l[c] > c}

\* the records written: one with an owner tag, one R12 paper space record
WriteTagsSet == {Tags(1, NoTag, NoTag), Tags(NoTag, 1, NoSubclass)}

InitWrite ==
    /\ dxfversion \in Versions
    /\ entitydb = <<>>
    /\ layout_spaces = <<>>
    /\ pc = "idle"
    /\ idx = 0
    /\ temp0 = <<>>
    /\ spaces0 = <<>>
    /\ link \in Links
    /\ out = <<>>
    /\ op = Result("init", "ok", NoKey, NoKey, NoSpace, "none")

\* Building the spaces of a document with linked records and writing them.
NextWrite ==
    \/ \E h \in Handles, tags \in WriteTagsSet : StoreTags(h, tags)
    \/ \E key \in Keys, h \in Handles : AddHandle(key, h)
    \/ \E h \in Handles : DeleteEntity(h)
    \/ \E key \in Keys : Write(key)

SpecWrite == InitWrite /\ [][NextWrite]_vars

\* Every operation of LayoutSpaces, the write included.
NextAll ==
    \/ Next
    \/ \E key \in Keys : Write(key)

SpecAll == Init /\ [][NextAll]_vars

\* repair_owner_tags has raised DXFStructureError: the error is fatal to the
\* load, nothing catches it in this file
LoadAborted ==
    /\ pc = "idle"
    /\ op.name = "repair_owner_tags"
    /\ op.err \in {NoSubclassError, InvalidOwnerError}

\* Loading a document: records are stored, entities may be deleted, the owner
\* tags are repaired; a DXFStructureError ends the load.
NextLoad ==
    \/ \E h \in Handles, tags \in TagsSet : ~LoadAborted /\ StoreTags(h, tags)
    \/ \E h \in Handles : ~LoadAborted /\ DeleteEntity(h)
    \/ \E mk \in Keys, pk \in Keys : ~LoadAborted /\ RepairCall(mk, pk)
    \/ UpdateStep
    \/ DistributeStep

SpecLoad == Init /\ [][NextLoad]_vars

\* ------------------------------------------------------------------ claims
flag(h) == get_first_value(entitydb[h].entity, 0)

InSpace(h, key) ==
    key \in DOMAIN layout_spaces /\ h \in Range(layout_spaces[key].items)

Returned(name, err) == pc = "idle" /\ op.name = name /\ op.err = err

RepairCalled ==
    pc = "idle" /\ op'.name = "repair_owner_tags"
        /\ \E mk \in Keys, pk \in Keys : RepairCall(mk, pk)

\* C1: between calls (no repair_owner_tags call under way), every handle of
\* the registry is in exactly one EntitySpace and occurs there exactly once.
C1_ExclusiveOwnership ==
    pc = "idle" =>
        \A h \in Handles :
            (\E k \in DOMAIN layout_spaces : h \in Range(layout_spaces[k].items)) =>
                /\ Cardinality({k \in DOMAIN layout_spaces :
                                    h \in Range(layout_spaces[k].items)}) = 1
                /\ \A k \in DOMAIN layout_spaces : Count(layout_spaces[k].items, h) <= 1

\* a repair returned and left every handle in one of two non-empty spaces
C1_Witness ==
    /\ Returned("repair_owner_tags", "ok")
    /\ \A h \in Handles : \E k \in DOMAIN layout_spaces : InSpace(h, k)
    /\ Cardinality({k \in DOMAIN layout_spaces : layout_spaces[k].items # <<>>}) = 2

\* C2: after repair_owner_tags(model_key, paper_key) returned, every entity of
\* the temporary space with paper space flag 0 is in the space keyed model_key
\* and every entity with another flag is in the space keyed paper_key.
C2_RepairCorrectness ==
    Returned("repair_owner_tags", "ok") =>
        \A h \in Range(temp0) :
            IF flag(h) = 0 THEN InSpace(h, op.key) ELSE InSpace(h, op.key2)

\* a repair with two distinct real keys re-homed a model and a paper entity
C2_Witness ==
    /\ Returned("repair_owner_tags", "ok")
    /\ op.key # op.key2 /\ op.key # TempKey /\ op.key2 # TempKey
    /\ \E g \in Range(temp0), h \in Range(temp0) : flag(g) = 0 /\ flag(h) # 0

\* C3: after repair_owner_tags returned normally, for any keys, the registry
\* has no key 0 and every handle of the temporary space is in some space.
C3_NoTempAfterRepair ==
    Returned("repair_owner_tags", "ok") =>
        /\ TempKey \notin DOMAIN layout_spaces
        /\ \A h \in Range(temp0) : \E k \in DOMAIN layout_spaces : InSpace(h, k)

\* a repair whose model_key is the temporary key itself returned
C3_Witness ==
    /\ Returned("repair_owner_tags", "ok")
    /\ op.key = TempKey
    /\ temp0 # <<>>

\* C4: the redistribution pass of repair_owner_tags runs at most as many
\* iterations as the temporary space had handles when the call began.
C4_RepairBounded ==
    pc = "distribute" => idx - 1 <= Len(temp0)

\* C5: repair_owner_tags on a registry without key 0, hence also one that
\* follows a successful repair, changes no key, no space and no record.
C5_RepairNoTempNoOp ==
    [][((TempKey \notin DOMAIN layout_spaces \/ Returned("repair_owner_tags", "ok"))
        /\ RepairCalled)
          => /\ layout_spaces' = layout_spaces
             /\ entitydb' = entitydb
             /\ pc' = "idle"]_vars

\* a second repair right after a successful one, on a registry holding handles
C5_Witness ==
    /\ Returned("repair_owner_tags", "no_temp")
    /\ op.after = "repair_owner_tags"
    /\ \E k \in DOMAIN layout_spaces : layout_spaces[k].items # <<>>

\* C6: on a legacy dialect registry repair_owner_tags changes nothing, also
\* when key 0 exists: keys, handle sequences and records stay as they are.
C6_RepairLegacyNoOp ==
    [][(dxfversion <= LegacyVersion /\ RepairCalled)
          => /\ layout_spaces' = layout_spaces
             /\ entitydb' = entitydb
             /\ pc' = "idle"]_vars

\* a legacy registry whose key 0 holds every handle went through a repair call
C6_Witness ==
    /\ Returned("repair_owner_tags", "legacy")
    /\ TempKey \in DOMAIN layout_spaces
    /\ Len(layout_spaces[TempKey].items) = NumHandles

\* C7: when the redistribution pass reads an owner tag that is neither
\* model_key nor paper_key, repair_owner_tags ends with the invalid owner
\* DXFStructureError, which reaches the caller.
C7_InvalidOwnerDetected ==
    [][(/\ pc = "distribute"
        /\ idx <= Len(layout_spaces[TempKey].items)
        /\ entitydb[layout_spaces[TempKey].items[idx]].owner
              \notin {model_space_key, paper_space_key}
        /\ DistributeStep)
          => /\ pc' = "idle"
             /\ op'.name = "repair_owner_tags"
             /\ op'.err = InvalidOwnerError
             /\ layout_spaces' = layout_spaces]_vars

\* a repair ended with the invalid owner error
C7_Witness ==
    Returned("repair_owner_tags", InvalidOwnerError)

\* the key the claim gives for a record
C8_Strategy(tags) ==
    IF dxfversion <= LegacyVersion
    THEN (IF tags.paper = NoTag THEN 0 ELSE tags.paper)
    ELSE (IF tags.owner = NoTag THEN 0 ELSE tags.owner)

\* C8: store_tags appends the handle to the end of the space keyed by the
\* strategy (tag 67 up to 'AC1009', tag 330 after it, default 0), creates that
\* space when missing, changes no other space, and the version stays fixed.
C8_StoreRouting ==
    [][op'.name = "store_tags" =>
          \A h \in {op'.key2} \cap Handles, tags \in TagsSet :
              StoreTags(h, tags) =>
                  LET key == C8_Strategy(tags)
                      before == IF key \in DOMAIN layout_spaces
                                THEN layout_spaces[key].items ELSE <<>>
                  IN  /\ DOMAIN layout_spaces' = DOMAIN layout_spaces \cup {key}
                      /\ layout_spaces'[key].items = Append(before, h)
                      /\ \A k \in DOMAIN layout_spaces \ {key} :
                            layout_spaces'[k] = layout_spaces[k]
                      /\ dxfversion' = dxfversion]_vars

\* a store appended a handle behind another one, in a registry of two spaces
C8_Witness ==
    /\ Returned("store_tags", "ok")
    /\ Len(layout_spaces[op.key].items) >= 2
    /\ layout_spaces[op.key].items[Len(layout_spaces[op.key].items)] = op.key2
    /\ Cardinality(DOMAIN layout_spaces) >= 2

\* C9: get_entity_space(key) returns the registered space, or registers a new
\* empty one under key; it changes no other space and no content, and a second
\* call with the same key returns the same instance and changes nothing.
C9_GetIdempotent ==
    [][\A k \in Keys :
          (op'.name = "get_entity_space" /\ GetEntitySpace(k)) =>
              /\ k \in DOMAIN layout_spaces =>
                    /\ layout_spaces' = layout_spaces
                    /\ op'.ret = layout_spaces[k].id
              /\ k \notin DOMAIN layout_spaces =>
                    /\ DOMAIN layout_spaces' = DOMAIN layout_spaces \cup {k}
                    /\ layout_spaces'[k].items = <<>>
                    /\ layout_spaces'[k].id \notin SpaceIdsOf(layout_spaces)
                    /\ op'.ret = layout_spaces'[k].id
                    /\ \A j \in DOMAIN layout_spaces :
                          layout_spaces'[j] = layout_spaces[j]
              /\ (op.name = "get_entity_space" /\ op.key = k) =>
                    /\ op'.ret = op.ret
                    /\ layout_spaces' = layout_spaces]_vars

\* a second get_entity_space of the key of a space that holds handles
C9_Witness ==
    /\ Returned("get_entity_space", "ok")
    /\ op.after = "get_entity_space"
    /\ layout_spaces[op.key].items # <<>>
    /\ op.ret = layout_spaces[op.key].id

\* C10: delete_entity_space(key) removes the space of key and leaves the other
\* spaces as they are; for an absent key it fails with KeyError and changes
\* nothing; get_entity_space(key) after a removal yields a new, empty space.
C10_DeleteEntitySpace ==
    [][\A k \in Keys :
          /\ (op'.name = "delete_entity_space" /\ DeleteEntitySpace(k)) =>
                IF k \in DOMAIN layout_spaces
                THEN /\ layout_spaces' = DelKey(layout_spaces, k)
                     /\ op'.err = "ok"
                ELSE /\ layout_spaces' = layout_spaces
                     /\ op'.err = "KeyError"
          /\ (Returned("delete_entity_space", "ok") /\ op.key = k
                 /\ GetEntitySpace(k)) =>
                /\ k \notin DOMAIN layout_spaces
                /\ layout_spaces'[k].items = <<>>
                /\ layout_spaces'[k].id \notin SpaceIdsOf(layout_spaces)
                /\ op'.ret = layout_spaces'[k].id]_vars

\* get_entity_space made a new space for a key removed just before, beside a
\* space that holds handles
C10_Witness ==
    /\ Returned("get_entity_space", "ok")
    /\ op.after = "delete_entity_space"
    /\ layout_spaces[op.key].items = <<>>
    /\ \E k \in DOMAIN layout_spaces : layout_spaces[k].items # <<>>

\* the sequence s without the handle h
Without(s, h) == SelectSeq(s, LAMBDA x : x # h)

\* C11: delete_entity of a record whose derived key has no space raises
\* nothing, creates no space and changes no space; when the space holds the
\* handle, that one handle leaves it and the others keep their order.
C11_DeleteEntityTolerant ==
    [][\A h \in Handles :
          (op'.name = "delete_entity" /\ op'.key2 = h /\ DeleteEntity(h)) =>
              LET key == C8_Strategy(entitydb[h])
              IN  /\ key \notin DOMAIN layout_spaces =>
                        /\ layout_spaces' = layout_spaces
                        /\ op'.err = "ignored"
                  /\ (key \in DOMAIN layout_spaces
                          /\ h \in Range(layout_spaces[key].items)) =>
                        /\ op'.err = "ok"
                        /\ DOMAIN layout_spaces' = DOMAIN layout_spaces
                        /\ Len(layout_spaces'[key].items)
                              = Len(layout_spaces[key].items) - 1
                        /\ Without(layout_spaces'[key].items, h)
                              = Without(layout_spaces[key].items, h)
                        /\ \A k \in DOMAIN layout_spaces \ {key} :
                              layout_spaces'[k] = layout_spaces[k]]_vars

\* a delete_entity was ignored for want of a space while another space of the
\* registry holds a handle
C11_Witness ==
    /\ Returned("delete_entity", "ignored")
    /\ op.key \notin DOMAIN layout_spaces
    /\ \E k \in DOMAIN layout_spaces : layout_spaces[k].items # <<>>

\* C12: delete_entity of a record whose space exists and does not hold its
\* handle raises ValueError, which reaches the caller, and changes no space.
C12_DeleteMissingRaises ==
    [][\A h \in Handles :
          (op'.name = "delete_entity" /\ op'.key2 = h /\ DeleteEntity(h)) =>
              LET key == C8_Strategy(entitydb[h])
              IN  (key \in DOMAIN layout_spaces
                      /\ h \notin Range(layout_spaces[key].items)) =>
                        /\ op'.err = "ValueError"
                        /\ pc' = "idle"
                        /\ layout_spaces' = layout_spaces]_vars

\* a delete_entity raised ValueError on a space that holds another handle
C12_Witness ==
    /\ Returned("delete_entity", "ValueError")
    /\ op.key \in DOMAIN layout_spaces
    /\ layout_spaces[op.key].items # <<>>
    /\ op.key2 \notin Range(layout_spaces[op.key].items)

\* C15: delete_all_entities empties the handle sequence of every space, keeps
\* every key and every space object, and leaves the database as it is.
C15_DeleteAllEntities ==
    [][(op'.name = "delete_all_entities" /\ DeleteAllEntities) =>
          /\ DOMAIN layout_spaces' = DOMAIN layout_spaces
          /\ \A k \in DOMAIN layout_spaces :
                /\ layout_spaces'[k].items = <<>>
                /\ layout_spaces'[k].id = layout_spaces[k].id
          /\ entitydb' = entitydb]_vars

\* delete_all_entities left two empty spaces and a database with every record
C15_Witness ==
    /\ Returned("delete_all_entities", "ok")
    /\ Cardinality(DOMAIN layout_spaces) >= 2
    /\ \A k \in DOMAIN layout_spaces : layout_spaces[k].items = <<>>
    /\ DOMAIN entitydb = Handles

\* the key the tag-fix pass has to write into the owner tag of handle h
C17_Resolved(h) == IF flag(h) = 0 THEN model_space_key ELSE paper_space_key

\* C17: a step of a running repair_owner_tags changes a space only when the
\* owner tag of every entity of the temporary space has been written.
C17_PassOrdering ==
    [][(pc \in {"update", "distribute"} /\ layout_spaces' # layout_spaces) =>
          \A h \in Range(temp0) :
              /\ entitydb[h].entity # NoSubclass
              /\ entitydb[h].owner = C17_Resolved(h)]_vars

\* the redistribution pass has appended both handles of a temporary space of
\* a model and a paper entity
C17_Witness ==
    /\ pc = "distribute"
    /\ Len(temp0) >= 2
    /\ idx = Len(temp0) + 1
    /\ model_space_key # paper_space_key
    /\ \E g \in Range(temp0), h \in Range(temp0) : flag(g) = 0 /\ flag(h) # 0

\* the handles a destination space held when repair_owner_tags was called
Prior(k) ==
    IF k \in DOMAIN spaces0 /\ k # TempKey THEN spaces0[k].items ELSE <<>>

\* C19: a successful repair_owner_tags keeps the number of occurrences of
\* every handle and the length of the registry, keeps every destination space
\* with its prior handles at their positions, and appends behind them the
\* re-homed handles in the order they had in the temporary space.
C19_RepairConserves ==
    (Returned("repair_owner_tags", "ok") /\ TempKey \in DOMAIN spaces0) =>
        /\ \A h \in Handles :
              Occurrences(layout_spaces, h) = Occurrences(spaces0, h)
        /\ registry_len(layout_spaces) = registry_len(spaces0)
        /\ DOMAIN spaces0 \ {TempKey} \subseteq DOMAIN layout_spaces
        /\ \A k \in DOMAIN layout_spaces :
              LET items == layout_spaces[k].items
                  prior == Prior(k)
              IN  /\ Len(prior) <= Len(items)
                  /\ SubSeq(items, 1, Len(prior)) = prior
                  /\ SubSeq(items, Len(prior) + 1, Len(items)) =
                         SelectSeq(temp0, LAMBDA h : C17_Resolved(h) = k)

\* a successful repair appended a handle of the temporary space behind the
\* handle its destination space already held
C19_Witness ==
    /\ Returned("repair_owner_tags", "ok")
    /\ temp0 # <<>>
    /\ \E k \in DOMAIN layout_spaces :
          /\ Prior(k) # <<>>
          /\ Len(layout_spaces[k].items) > Len(Prior(k))

\* C20: when repair_owner_tags has been called on a temporary space holding
\* an entity without the 'AcDbEntity' tag group and has returned, it returned
\* the DXFStructureError, key 0 holds its handles in their original order and
\* every other space holds what it held before the call.
C20_FailedRepairMovesNothing ==
    (/\ pc = "idle"
     /\ op.name = "repair_owner_tags"
     /\ TempKey \in DOMAIN spaces0
     /\ \E h \in Range(temp0) : entitydb[h].entity = NoSubclass) =>
        /\ op.err = NoSubclassError
        /\ TempKey \in DOMAIN layout_spaces
        /\ layout_spaces[TempKey].items = spaces0[TempKey].items
        /\ \A k \in DOMAIN layout_spaces \ {TempKey} :
              layout_spaces[k].items = Prior(k)

\* the repair failed on the second entity of the temporary space, after the
\* owner tag of the first one had been written
C20_Witness ==
    /\ Returned("repair_owner_tags", NoSubclassError)
    /\ Len(temp0) >= 2
    /\ entitydb[temp0[1]].entity # NoSubclass
    /\ entitydb[temp0[1]].owner = C17_Resolved(temp0[1])
    /\ entitydb[temp0[2]].entity = NoSubclass
    /\ layout_spaces[TempKey].items = temp0

\* every handle of every space lies under the key the strategy derives from
\* its record
RoutingConsistent ==
    \A k \in DOMAIN layout_spaces :
        \A h \in Range(layout_spaces[k].items) :
            get_key(dxfversion, entitydb[h]) = k

\* C18: on a newer-dialect registry built by store_tags calls with distinct
\* handles and successful repair_owner_tags calls, between two calls every
\* handle lies in the space of the key derived from its record, and
\* delete_entity of an entity whose handle is stored returns normally and
\* leaves the handle in no space.
C18_RoutingConsistency ==
    /\ []((dxfversion > LegacyVersion /\ pc = "idle" /\ ~LoadAborted) =>
             RoutingConsistent)
    /\ [][\A h \in Handles :
             (/\ op'.name = "delete_entity"
              /\ op'.key2 = h
              /\ dxfversion > LegacyVersion
              /\ DeleteEntity(h)
              /\ Occurrences(layout_spaces, h) >= 1) =>
                 /\ op'.err = "ok"
                 /\ Occurrences(layout_spaces', h) = 0]_vars

\* a successful repair has re-homed a model and a paper entity, and each lies
\* under the key its rewritten owner tag names
C18_Witness ==
    /\ dxfversion > LegacyVersion
    /\ Returned("repair_owner_tags", "ok")
    /\ Len(temp0) >= 2
    /\ model_space_key # paper_space_key
    /\ \A h \in Range(temp0) :
          /\ get_key(dxfversion, entitydb[h]) # TempKey
          /\ InSpace(h, get_key(dxfversion, entitydb[h]))
    /\ \E g \in Range(temp0), h \in Range(temp0) : flag(g) = 0 /\ flag(h) # 0

\* C13: EntitySpace.write emits the records of the handles of the space in
\* the order of the list, the order in which store_tags and add_handle
\* appended them and delete_entity left them.
C13_WriteOrder ==
    Returned("write", "ok") =>
        SelectSeq(out, LAMBDA h : h \in Handles) = layout_spaces[op.key].items

\* a space whose handles are not in ascending order was written with the
\* linked records in between
C13_Witness ==
    /\ Returned("write", "ok")
    /\ Len(layout_spaces[op.key].items) >= 2
    /\ layout_spaces[op.key].items[1] > layout_spaces[op.key].items[2]
    /\ Len(out) > Len(layout_spaces[op.key].items)

\* C14: in what EntitySpace.write emits, the first record is that of the
\* first handle of the space, a record with a link is followed by the record
\* it links to, and a record with an empty link is followed by the record of
\* the next handle of the space or ends the output at the last handle.
C14_LinkChains ==
    Returned("write", "ok") =>
        LET items == layout_spaces[op.key].items
            starts == {n \in 1..Len(out) : n = 1 \/ link[out[n - 1]] = NoLink}
            rank(n) == Cardinality({m \in starts : m <= n})
        IN  /\ Cardinality(starts) = Len(items)
            /\ \A n \in starts : out[n] = items[rank(n)]
            /\ \A n \in 1..Len(out) :
                  /\ n \notin starts => out[n] = link[out[n - 1]]
                  /\ n = Len(out) => link[out[n]] = NoLink

\* the first handle of the space links to a record that links to a record
\* that links to nothing, and the second handle of the space follows
C14_Witness ==
    /\ Returned("write", "ok")
    /\ Len(layout_spaces[op.key].items) >= 2
    /\ Len(out) >= 4
    /\ link[out[1]] # NoLink
    /\ link[out[2]] # NoLink
    /\ link[out[3]] = NoLink
    /\ out[4] = layout_spaces[op.key].items[2]

\* C16: no step of any operation removes a handle from the database or
\* changes a handle's presence, except store_tags, which adds the record it
\* is given.
C16_DatabaseKept ==
    [][/\ DOMAIN entitydb \subseteq DOMAIN entitydb'
       /\ op'.name # "store_tags" => DOMAIN entitydb' = DOMAIN entitydb]_vars

\* every record is in the database while no space holds a handle, after
\* handles had been stored
C16_Witness ==
    /\ DOMAIN entitydb = Handles
    /\ pc = "idle"
    /\ op.name \in {"delete_entity", "delete_entity_space",
                    "delete_all_entities", "repair_owner_tags", "write"}
    /\ registry_len(layout_spaces) = 0

====
